---------------------------- MODULE Spec2Model ----------------------------
(***************************************************************************)
(* Model of the synthetic measurement generator, data_generator.py, and of  *)
(* the pipeline runner, run_complete_analysis.py, with the parts of the    *)
(* scripts it starts that the properties below are about.                  *)
(*                                                                         *)
(* Numbers.  Lengths in millimetres are fixed-point integers counted in    *)
(* units of 1/Scale mm (Scale = 10^6), so that the products with the       *)
(* resistance factors (one decimal) and the table of 3*log10(c/10) (six    *)
(* decimals) are exact integers.  A stored Inhibition_Zone_mm, which the   *)
(* code rounds to 2 decimals, is counted in hundredths of a millimetre.    *)
(***************************************************************************)
EXTENDS Integers, Sequences, FiniteSets, TLC

VARIABLES
    pc,        \* position in generate_antibacterial_data
    pi,        \* position of the loop over plant_extracts, line 67 (1-based)
    bi,        \* position of the loop over bacteria, line 68 (1-based)
    data,      \* the list of record dicts, line 39
    draws,     \* the values np.random.normal has returned, in order
    np_state,  \* numpy's global RandomState
    py_state,  \* the random module's global generator
    now,       \* the wall clock read by datetime.now()
    df,        \* the DataFrame of line 107
    file,      \* antibacterial_data.csv on disk
    stdout,    \* the lines printed, lines 109-110
    returned,  \* the value handed to the caller, line 111
    seed,      \* the seeds the two generators were started from
    runs,      \* the number of calls of the generator so far
    mpc,       \* position in main and run_script of the pipeline runner
    step,      \* position of the loop over analysis_steps, line 54 (1-based)
    results,   \* the dict of line 51, as its items in insertion order
    procs,     \* the processes subprocess.run has started, in order
    result,    \* what the subprocess.run of the current step came to
    success,   \* the value run_script handed back, line 55
    console,   \* the lines the runner has printed
    ml         \* the locals of machine_learning_analysis.py, from line 250 on

runner_vars == <<mpc, step, results, procs, result, success, console>>

vars == <<pc, pi, bi, data, draws, np_state, py_state, now, df, file, stdout,
          returned, seed, runs, mpc, step, results, procs, result, success,
          console, ml>>

(***************************************************************************)
(* Bounds of the model.                                                    *)
(***************************************************************************)
NumSeeds == 7
NumPySeeds == 2
MaxRuns == 2

(***************************************************************************)
(* Fixed-point scale and the clock.                                        *)
(***************************************************************************)
Scale == 1000000
DayTicks == 86400

(***************************************************************************)
(* The catalogs and parameter tables, lines 10-65.                         *)
(***************************************************************************)
plant_extracts ==
    << "Garlic (Allium sativum)",
       "Tea Tree (Melaleuca alternifolia)",
       "Oregano (Origanum vulgare)",
       "Thyme (Thymus vulgaris)",
       "Eucalyptus (Eucalyptus globulus)",
       "Neem (Azadirachta indica)",
       "Turmeric (Curcuma longa)",
       "Ginger (Zingiber officinale)",
       "Cinnamon (Cinnamomum verum)",
       "Clove (Syzygium aromaticum)" >>

bacteria ==
    << "Escherichia coli",
       "Staphylococcus aureus",
       "Streptococcus pyogenes",
       "Pseudomonas aeruginosa",
       "Bacillus subtilis",
       "Salmonella typhimurium",
       "Enterococcus faecalis",
       "Klebsiella pneumoniae" >>

concentrations == <<10, 25, 50, 100, 200>>

NumReplicates == 3

\* base and variance in whole millimetres, as written in the source
plant_effectiveness ==
    ( "Garlic (Allium sativum)"           :> [base |-> 15, variance |-> 5] ) @@
    ( "Tea Tree (Melaleuca alternifolia)" :> [base |-> 18, variance |-> 4] ) @@
    ( "Oregano (Origanum vulgare)"        :> [base |-> 16, variance |-> 3] ) @@
    ( "Thyme (Thymus vulgaris)"           :> [base |-> 17, variance |-> 4] ) @@
    ( "Eucalyptus (Eucalyptus globulus)"  :> [base |-> 12, variance |-> 6] ) @@
    ( "Neem (Azadirachta indica)"         :> [base |-> 14, variance |-> 5] ) @@
    ( "Turmeric (Curcuma longa)"          :> [base |-> 10, variance |-> 4] ) @@
    ( "Ginger (Zingiber officinale)"      :> [base |-> 8,  variance |-> 3] ) @@
    ( "Cinnamon (Cinnamomum verum)"       :> [base |-> 13, variance |-> 4] ) @@
    ( "Clove (Syzygium aromaticum)"       :> [base |-> 19, variance |-> 3] )

\* resistance factors in tenths: 1.0, 0.8, 1.2, 0.6, 1.4, 0.9, 0.7, 0.8
bacterial_resistance ==
    ( "Escherichia coli"       :> 10 ) @@
    ( "Staphylococcus aureus"  :> 8  ) @@
    ( "Streptococcus pyogenes" :> 12 ) @@
    ( "Pseudomonas aeruginosa" :> 6  ) @@
    ( "Bacillus subtilis"      :> 14 ) @@
    ( "Salmonella typhimurium" :> 9  ) @@
    ( "Enterococcus faecalis"  :> 7  ) @@
    ( "Klebsiella pneumoniae"  :> 8  )

(***************************************************************************)
(* np.log10(concentration / 10) * 3, line 78, in units of 1/Scale mm:      *)
(* log10(1) = 0, log10(2.5) = 0.397940, log10(5) = 0.698970,               *)
(* log10(10) = 1, log10(20) = 1.301030.                                    *)
(***************************************************************************)
Log10Micro ==
    ( 10 :> 0 ) @@ ( 25 :> 397940 ) @@ ( 50 :> 698970 ) @@
    ( 100 :> 1000000 ) @@ ( 200 :> 1301030 )

\* variant: the effect falls with the concentration
conc_effect_inverse(concentration) == 0 - Log10Micro[concentration] * 3

\* variant: the logarithm of the concentration itself, log10(10) = 1
conc_effect_no_reference(concentration) ==
    (Log10Micro[concentration] + Scale) * 3

conc_effect(concentration) == Log10Micro[concentration] * 3

\* variant: the resistance factor applied to the base alone
base_zone_factor_on_base(plant, bacterium, concentration) ==
    (plant_effectiveness[plant].base * Scale * bacterial_resistance[bacterium])
        \div 10 + conc_effect(concentration)

(***************************************************************************)
(* Lines 73-81: the value before the noise is added.                       *)
(***************************************************************************)
base_zone(plant, bacterium, concentration) ==
    ((plant_effectiveness[plant].base * Scale + conc_effect(concentration))
        * bacterial_resistance[bacterium]) \div 10

(***************************************************************************)
(* numpy's global RandomState is a deterministic stream fixed by its seed. *)
(* The stream is a cycle of standard-normal deviates (in 1/Scale sigma):   *)
(* the state counts the draws taken, so that over the seeds every record   *)
(* meets several deviates.  The deviates are none (0), far tails both ways *)
(* (-4, +2.5), one sigma up and 1.2 down, a small fraction (0.332) and a   *)
(* hair below none (-0.0008): with them a value is clamped, meets a tier   *)
(* bound exactly, and falls within half a hundredth of one.                *)
(* np.random.normal(0, scale) is 0 + scale * deviate, line 82.             *)
(***************************************************************************)
StdNormal == << 0, -4000000, -800, 1000000, 332000, -1200000, 2500000 >>

\* variant: a generator that takes its position from the clock
np_random_normal_clock(state, scale) ==
    scale * StdNormal[((state + now) % Len(StdNormal)) + 1]

np_random_normal(state, scale) ==
    scale * StdNormal[(state % Len(StdNormal)) + 1]

(***************************************************************************)
(* random.randint(lo, hi), line 104: the random module's own generator, a  *)
(* deterministic stream of its own seed that visits every value of         *)
(* lo..hi; the state counts the draws taken.                               *)
(***************************************************************************)
random_randint(state, lo, hi) == lo + ((state * 7) % (hi - lo + 1))

\* variant: no clamp
Max0_unclamped(x) == x

(***************************************************************************)
(* max(0, inhibition_zone), line 85.                                       *)
(***************************************************************************)
Max0(x) == IF x > 0 THEN x ELSE 0

\* variant: strict comparisons
classify_strict(zone) ==
    IF zone > 20 * Scale THEN "High"
    ELSE IF zone > 15 * Scale THEN "Moderate"
    ELSE IF zone > 10 * Scale THEN "Low"
    ELSE "None"

(***************************************************************************)
(* Lines 88-95: the if / elif chain, on a value in 1/Scale mm.             *)
(***************************************************************************)
classify(zone) ==
    IF zone >= 20 * Scale THEN "High"
    ELSE IF zone >= 15 * Scale THEN "Moderate"
    ELSE IF zone >= 10 * Scale THEN "Low"
    ELSE "None"

(***************************************************************************)
(* round(inhibition_zone, 2), line 102: numpy rounds to the nearest        *)
(* hundredth, ties to the even one.  Result in hundredths of a mm.         *)
(***************************************************************************)
\* variant: the digits after the second decimal are cut off
round2_truncated(zone) == zone \div (Scale \div 100)

round2(zone) ==
    LET q == zone \div (Scale \div 100)
        r == zone % (Scale \div 100)
        half == Scale \div 200
    IN  IF r < half THEN q
        ELSE IF r > half THEN q + 1
        ELSE IF q % 2 = 0 THEN q ELSE q + 1

(***************************************************************************)
(* The keys of the record dict in insertion order, lines 97-105.           *)
(***************************************************************************)
Keys == << "Plant_Extract", "Bacteria", "Concentration_mg_mL", "Replicate",
           "Inhibition_Zone_mm", "Activity_Level", "Test_Date" >>

NoFile == [exists |-> FALSE]
NoFrame == [columns |-> <<>>, rows |-> <<>>]

\* variant: the columns in alphabetical order
DataFrame_sorted(records) ==
    [columns |-> IF records = <<>> THEN <<>>
                 ELSE << "Activity_Level", "Bacteria", "Concentration_mg_mL",
                         "Inhibition_Zone_mm", "Plant_Extract", "Replicate",
                         "Test_Date" >>,
     rows    |-> records]

(***************************************************************************)
(* pd.DataFrame(data), line 107: the columns are the keys of the dicts in  *)
(* insertion order; a frame built from an empty list has no columns.       *)
(***************************************************************************)
DataFrame(records) ==
    [columns |-> IF records = <<>> THEN <<>> ELSE Keys,
     rows    |-> records]

\* variant: nothing is written
to_csv_not_written(frame) == NoFile

\* variant: mode='a', the lines are added to those of the file
to_csv_append(frame) ==
    [exists |-> TRUE,
     header |-> frame.columns,
     lines  |-> (IF file.exists THEN file.lines ELSE <<>>) \o
                [k \in 1..Len(frame.rows) |->
                   [j \in 1..Len(frame.columns) |-> frame.rows[k][frame.columns[j]]]]]

(***************************************************************************)
(* df.to_csv(path, index=False), line 108: the file is replaced by a       *)
(* header line of the column names and one line per row, the cells in      *)
(* column order.                                                           *)
(***************************************************************************)
to_csv(frame) ==
    [exists |-> TRUE,
     header |-> frame.columns,
     lines  |-> [k \in 1..Len(frame.rows) |->
                   [j \in 1..Len(frame.columns) |-> frame.rows[k][frame.columns[j]]]]]

\* variant: timedelta(hours=...)
record_hours(plant, bacterium, concentration, replicate, zone, level, stamp, days) ==
    [Plant_Extract       |-> plant,
     Bacteria            |-> bacterium,
     Concentration_mg_mL |-> concentration,
     Replicate           |-> replicate + 1,
     Inhibition_Zone_mm  |-> round2(zone),
     Activity_Level      |-> level,
     Test_Date           |-> stamp - days * (DayTicks \div 24)]

\* variant: the loop variable stored as it is
record_zero_based(plant, bacterium, concentration, replicate, zone, level, stamp, days) ==
    [Plant_Extract       |-> plant,
     Bacteria            |-> bacterium,
     Concentration_mg_mL |-> concentration,
     Replicate           |-> replicate,
     Inhibition_Zone_mm  |-> round2(zone),
     Activity_Level      |-> level,
     Test_Date           |-> stamp - days * DayTicks]

(***************************************************************************)
(* The record dict appended to data, lines 97-105.  replicate is the value *)
(* of the loop variable of range(3), that is 0, 1 or 2.                    *)
(***************************************************************************)
record(plant, bacterium, concentration, replicate, zone, level, stamp, days) ==
    [Plant_Extract       |-> plant,
     Bacteria            |-> bacterium,
     Concentration_mg_mL |-> concentration,
     Replicate           |-> replicate + 1,
     Inhibition_Zone_mm  |-> round2(zone),
     Activity_Level      |-> level,
     Test_Date           |-> stamp - days * DayTicks]

(***************************************************************************)
(* One pass of the body of the innermost loop, lines 71-105, at position   *)
(* pos of the loops, on the values st of the function's locals, the two    *)
(* generators and the clock.  Each call of a generator moves it on by one  *)
(* draw; the clock has moved on by one tick at each datetime.now().        *)
(***************************************************************************)
\* variant: the numpy generator is set back before every record
loop_body_reseeded(st, pos) ==
    LET plant == plant_extracts[pos.p]
        bacterium == bacteria[pos.b]
        concentration == concentrations[pos.c]
        variance == plant_effectiveness[plant].variance
        draw == np_random_normal(st.np_state, variance)
        zone == Max0(base_zone(plant, bacterium, concentration) + draw)
        level == classify(zone)
        days == random_randint(st.py_state, 1, 30)
    IN  [data     |-> Append(st.data, record(plant, bacterium, concentration,
                                             pos.r, zone, level, st.now, days)),
         draws    |-> Append(st.draws, draw),
         np_state |-> st.np_state,
         py_state |-> st.py_state + 1,
         now      |-> st.now + 1]

loop_body(st, pos) ==
    LET plant == plant_extracts[pos.p]
        bacterium == bacteria[pos.b]
        concentration == concentrations[pos.c]
        variance == plant_effectiveness[plant].variance
        draw == np_random_normal(st.np_state, variance)
        zone == Max0(base_zone(plant, bacterium, concentration) + draw)
        level == classify(zone)
        days == random_randint(st.py_state, 1, 30)
    IN  [data     |-> Append(st.data, record(plant, bacterium, concentration,
                                             pos.r, zone, level, st.now, days)),
         draws    |-> Append(st.draws, draw),
         np_state |-> st.np_state + 1,
         py_state |-> st.py_state + 1,
         now      |-> st.now + 1]

(***************************************************************************)
(* for replicate in range(3), line 70, from replicate r on.                *)
(***************************************************************************)
RECURSIVE replicate_loop(_, _, _, _, _)
\* variant: range(2)
replicate_loop_short(st, p, b, c, r) ==
    IF r >= NumReplicates - 1 THEN st
    ELSE replicate_loop(
           loop_body(st, [p |-> p, b |-> b, c |-> c, r |-> r]), p, b, c, r + 1)

replicate_loop(st, p, b, c, r) ==
    IF r >= NumReplicates THEN st
    ELSE replicate_loop(
           loop_body(st, [p |-> p, b |-> b, c |-> c, r |-> r]), p, b, c, r + 1)

(***************************************************************************)
(* for concentration in concentrations, line 69, from the c-th on.         *)
(***************************************************************************)
RECURSIVE concentration_loop(_, _, _, _)
\* variant: the last concentration is left out
concentration_loop_short(st, p, b, c) ==
    IF c > Len(concentrations) - 1 THEN st
    ELSE concentration_loop(replicate_loop(st, p, b, c, 0), p, b, c + 1)

concentration_loop(st, p, b, c) ==
    IF c > Len(concentrations) THEN st
    ELSE concentration_loop(replicate_loop(st, p, b, c, 0), p, b, c + 1)

(***************************************************************************)
(* The state when generate_antibacterial_data is entered, line 6, in a     *)
(* fresh interpreter: both generators were seeded when their modules were  *)
(* imported, the clock is at the origin, the file does not exist yet.      *)
(***************************************************************************)
\* machine_learning_analysis.py is not being followed
MLNotStarted ==
    [pc |-> "off", scaler |-> <<>>, results |-> <<>>, best_model_name |-> "",
     combo |-> 0, X_new |-> <<>>, prediction |-> 0, activity |-> ""]

\* the pipeline runner is not in use: the generator is run on its own
RunnerNotStarted ==
    /\ mpc = "off"
    /\ step = 0
    /\ results = <<>>
    /\ procs = <<>>
    /\ result = [kind |-> "none"]
    /\ success = FALSE
    /\ console = <<>>

Init ==
    /\ RunnerNotStarted
    /\ ml = MLNotStarted
    /\ pc = "loop"
    /\ pi = 1 /\ bi = 1
    /\ data = <<>>
    /\ draws = <<>>
    /\ seed \in [np : 0..(NumSeeds - 1), py : 0..(NumPySeeds - 1)]
    /\ np_state = seed.np
    /\ py_state = seed.py
    /\ runs = 1
    /\ now = 0
    /\ df = NoFrame
    /\ file = NoFile
    /\ stdout = <<>>
    /\ returned = NoFrame

(***************************************************************************)
(* One pass of the body of for bacterium in bacteria, lines 68-105: the    *)
(* records of one plant and one bacterium, and the step of the two outer   *)
(* loops to their next position.                                           *)
(***************************************************************************)
BacteriumPass ==
    /\ pc = "loop"
    /\ LET st == concentration_loop([data |-> data, draws |-> draws,
                                     np_state |-> np_state,
                                     py_state |-> py_state, now |-> now],
                                    pi, bi, 1)
       IN  /\ data' = st.data
           /\ draws' = st.draws
           /\ np_state' = st.np_state
           /\ py_state' = st.py_state
           /\ now' = st.now
    /\ IF bi < Len(bacteria)
         THEN bi' = bi + 1 /\ pi' = pi /\ pc' = "loop"
         ELSE IF pi < Len(plant_extracts)
                THEN bi' = 1 /\ pi' = pi + 1 /\ pc' = "loop"
                ELSE bi' = bi /\ pi' = pi /\ pc' = "frame"
    /\ UNCHANGED <<df, file, stdout, returned, seed, runs>>
    /\ UNCHANGED runner_vars
    /\ UNCHANGED ml

(***************************************************************************)
(* Lines 107-108: build the frame and write the file.                      *)
(***************************************************************************)
WriteCsv ==
    /\ pc = "frame"
    /\ df' = DataFrame(data)
    /\ file' = to_csv(DataFrame(data))
    /\ pc' = "print"
    /\ UNCHANGED <<pi, bi, data, draws, np_state, py_state, now, stdout,
                   returned, seed, runs>>
    /\ UNCHANGED runner_vars
    /\ UNCHANGED ml

(***************************************************************************)
(* Lines 109-111: the two prints and the return.                           *)
(***************************************************************************)
Return ==
    /\ pc = "print"
    /\ stdout' = stdout \o << <<"Generated", Len(df.rows), "data points">>,
                              <<"Data saved to 'antibacterial_data.csv'">> >>
    /\ returned' = df
    /\ pc' = "done"
    /\ UNCHANGED <<pi, bi, data, draws, np_state, py_state, now, df, file,
                   seed, runs>>
    /\ UNCHANGED runner_vars
    /\ UNCHANGED ml

(***************************************************************************)
(* Line 108 when the write fails: to_csv raises OSError, which nothing in  *)
(* the file catches (lines 113-114), so the call ends there without the    *)
(* prints and without a return value.  Either the file could not be opened *)
(* and is as it was, or it was opened, which empties it, and holds the     *)
(* header and the lines written before the error.                          *)
(***************************************************************************)
WriteCsvFails ==
    /\ pc = "frame"
    /\ df' = DataFrame(data)
    /\ \E opened \in BOOLEAN : \E written \in {0, Len(data) \div 2} :
          file' = IF opened
                    THEN to_csv([DataFrame(data) EXCEPT
                                   !.rows = SubSeq(data, 1, written)])
                    ELSE file
    /\ pc' = "raised"
    /\ UNCHANGED <<pi, bi, data, draws, np_state, py_state, now, stdout,
                   returned, seed, runs>>
    /\ UNCHANGED runner_vars
    /\ UNCHANGED ml

Next == BacteriumPass \/ WriteCsv \/ WriteCsvFails \/ Return

\* one call of the generator in a fresh interpreter
Spec == Init /\ [][Next]_vars

(***************************************************************************)
(* A second call, lines 113-114, by a caller that first sets both          *)
(* generators back to the seed of the first call (np.random.seed,          *)
(* random.seed): the generator itself takes no seed.  The call starts over *)
(* at line 39; the clock, the file and the caller's copy of the earlier    *)
(* return value stay as they are.                                          *)
(***************************************************************************)
CallAgainSameSeed ==
    /\ pc = "done"
    /\ runs < MaxRuns
    /\ runs' = runs + 1
    /\ np_state' = seed.np
    /\ py_state' = seed.py
    /\ pc' = "loop"
    /\ pi' = 1 /\ bi' = 1
    /\ data' = <<>>
    /\ draws' = <<>>
    /\ df' = NoFrame
    /\ UNCHANGED <<now, file, stdout, returned, seed>>
    /\ UNCHANGED runner_vars
    /\ UNCHANGED ml

NextRerun ==
    BacteriumPass \/ WriteCsv \/ WriteCsvFails \/ Return \/ CallAgainSameSeed

\* repeated calls with the same explicit seed
SpecRerun == Init /\ [][NextRerun]_vars

(***************************************************************************)
(* The pipeline runner, run_complete_analysis.py.                          *)
(*                                                                         *)
(* analysis_steps, lines 42-48: the scripts and their descriptions.        *)
(***************************************************************************)
\* variant: the visualisation ahead of the statistics
analysis_steps_swapped ==
    << <<"data_generator.py", "Data Generation">>,
       <<"data_visualization.py", "Data Visualization">>,
       <<"statistical_analysis.py", "Statistical Analysis">>,
       <<"machine_learning_analysis.py", "Machine Learning Analysis">>,
       <<"report_generator.py", "Report Generation">> >>

analysis_steps ==
    << <<"data_generator.py", "Data Generation">>,
       <<"statistical_analysis.py", "Statistical Analysis">>,
       <<"data_visualization.py", "Data Visualization">>,
       <<"machine_learning_analysis.py", "Machine Learning Analysis">>,
       <<"report_generator.py", "Report Generation">> >>

(***************************************************************************)
(* What subprocess.run, lines 12-15, can come to.  It raises when the      *)
(* interpreter cannot be started (OSError and its subclasses, which are    *)
(* subclasses of Exception); otherwise it waits for the child and gives    *)
(* its return code: 0, the 1 of an uncaught exception in the script, or    *)
(* the negative number of the signal that ended the child.                 *)
(***************************************************************************)
LaunchErrors == {"FileNotFoundError", "PermissionError"}
ReturnCodes == {0, 1, 0 - 9}

\* variant: the return code is not looked at
run_script_returns_unchecked(res) ==
    IF res.kind = "raised" THEN FALSE ELSE TRUE

(***************************************************************************)
(* The value run_script returns, lines 17-27: False from the except        *)
(* clause, False for a return code other than 0, True otherwise.           *)
(***************************************************************************)
run_script_returns(res) ==
    IF res.kind = "raised" THEN FALSE
    ELSE IF res.returncode = 0 THEN TRUE
    ELSE FALSE

\* variant: break at the first failed step
next_step_break(i, ok) == IF ok THEN i + 1 ELSE Len(analysis_steps) + 1

\* for script, description in analysis_steps, line 54: on to the next item
\* whatever run_script returned
next_step(i, ok) == i + 1

(***************************************************************************)
(* results[description] = success, line 56, on the dict as the sequence of *)
(* its items: the value of a key already there is replaced in place, a new *)
(* key goes to the end.                                                    *)
(***************************************************************************)
dict_set(items, key, value) ==
    IF \E i \in 1..Len(items) : items[i][1] = key
      THEN [i \in 1..Len(items) |->
              IF items[i][1] = key THEN <<key, value>> ELSE items[i]]
      ELSE Append(items, <<key, value>>)

\* sum(results.values()), line 70: the number of True values
RECURSIVE sum_values(_)
\* variant: every value counts, True or False
sum_values_all(items) ==
    IF items = <<>> THEN 0
    ELSE 1 + sum_values(Tail(items))

sum_values(items) ==
    IF items = <<>> THEN 0
    ELSE (IF items[1][2] THEN 1 ELSE 0) + sum_values(Tail(items))

(***************************************************************************)
(* The lines of the final summary, lines 62-85, for the dict items: one    *)
(* status line per item, the rate line, and the closing message.           *)
(***************************************************************************)
summary_lines(items) ==
    LET successful_steps == sum_values(items)
        total_steps == Len(items)
    IN  << <<"SUMMARY">> >>
        \o [i \in 1..Len(items) |->
              <<"STATUS", items[i][1],
                IF items[i][2] THEN "SUCCESS" ELSE "FAILED">>]
        \o << <<"RATE", successful_steps, total_steps>> >>
        \o (IF successful_steps = total_steps
              THEN << <<"COMPLETE">> >>
              ELSE << <<"FAILED_STEPS", total_steps - successful_steps>> >>)

(***************************************************************************)
(* main is entered, lines 29-51: the banner is printed, results is empty.  *)
(* The generator's own variables describe no call here: the scripts run in *)
(* child processes.                                                        *)
(***************************************************************************)
InitMain ==
    /\ ml = MLNotStarted
    /\ mpc = "for"
    /\ step = 1
    /\ results = <<>>
    /\ procs = <<>>
    /\ result = [kind |-> "none"]
    /\ success = FALSE
    /\ console = << <<"BANNER">> >>
    /\ pc = "off"
    /\ pi = 1 /\ bi = 1
    /\ data = <<>>
    /\ draws = <<>>
    /\ seed = [np |-> 0, py |-> 0]
    /\ np_state = 0
    /\ py_state = 0
    /\ runs = 0
    /\ now = 0
    /\ df = NoFrame
    /\ file = NoFile
    /\ stdout = <<>>
    /\ returned = NoFrame

generator_vars == <<pc, pi, bi, data, draws, np_state, py_state, now, df,
                    file, stdout, returned, seed, runs>>

\* lines 54-55 and 7-9: the next item of analysis_steps, run_script is
\* entered and prints its heading
CallRunScript ==
    /\ mpc = "for"
    /\ step <= Len(analysis_steps)
    /\ console' = Append(console, <<"RUNNING", analysis_steps[step][2]>>)
    /\ result' = [kind |-> "none"]
    /\ mpc' = "try"
    /\ UNCHANGED <<step, results, procs, success>>
    /\ UNCHANGED generator_vars
    /\ UNCHANGED ml

\* lines 12-15 raise, lines 23-25: no process was started; the except
\* clause prints the error and run_script returns False
LaunchRaises ==
    /\ mpc = "try"
    /\ \E e \in LaunchErrors :
          /\ result' = [kind |-> "raised", exception |-> e]
          /\ console' = Append(console,
                               <<"ERROR", analysis_steps[step][2], e>>)
    /\ success' = run_script_returns(result')
    /\ mpc' = "store"
    /\ UNCHANGED <<step, results, procs>>
    /\ UNCHANGED generator_vars
    /\ UNCHANGED ml

\* lines 12-15: the child process is started, subprocess.run waits for it
SpawnChild ==
    /\ mpc = "try"
    /\ procs' = Append(procs, [script |-> analysis_steps[step][1],
                               state  |-> "running"])
    /\ mpc' = "wait"
    /\ UNCHANGED <<step, results, result, success, console>>
    /\ UNCHANGED generator_vars
    /\ UNCHANGED ml

\* the child ends, subprocess.run returns, lines 17-27: the line printed
\* and the value returned follow the return code
ChildExits ==
    /\ mpc = "wait"
    /\ \E rc \in ReturnCodes :
          /\ procs' = [procs EXCEPT ![Len(procs)] =
                         [script     |-> procs[Len(procs)].script,
                          state      |-> "exited",
                          returncode |-> rc]]
          /\ result' = [kind |-> "completed", returncode |-> rc]
          /\ console' = Append(console,
                IF rc = 0
                  THEN <<"COMPLETED", analysis_steps[step][2]>>
                  ELSE <<"FAILED", analysis_steps[step][2], rc>>)
    /\ success' = run_script_returns(result')
    /\ mpc' = "store"
    /\ UNCHANGED <<step, results>>
    /\ UNCHANGED generator_vars
    /\ UNCHANGED ml

\* lines 56-59: the outcome is stored, a failure is warned of, and the loop
\* goes on
StoreResult ==
    /\ mpc = "store"
    /\ results' = dict_set(results, analysis_steps[step][2], success)
    /\ console' = IF success THEN console
                  ELSE Append(console, <<"WARNING", analysis_steps[step][2]>>)
    /\ step' = next_step(step, success)
    /\ mpc' = "for"
    /\ UNCHANGED <<procs, result, success>>
    /\ UNCHANGED generator_vars
    /\ UNCHANGED ml

\* lines 62-85, after the loop: the summary is printed and main returns
Summary ==
    /\ mpc = "for"
    /\ step > Len(analysis_steps)
    /\ console' = console \o summary_lines(results)
    /\ mpc' = "end"
    /\ UNCHANGED <<step, results, procs, result, success>>
    /\ UNCHANGED generator_vars
    /\ UNCHANGED ml

NextMain ==
    \/ CallRunScript
    \/ LaunchRaises
    \/ SpawnChild
    \/ ChildExits
    \/ StoreResult
    \/ Summary

\* one run of main
SpecMain == InitMain /\ [][NextMain]_vars

\* one run of main in which the interpreter goes on while it has a
\* statement to execute and every child process comes to an end
SpecMainFair == InitMain /\ [][NextMain]_vars /\ WF_vars(NextMain)

(***************************************************************************)
(* The scripts the runner starts, seen from the runner: what each prints,  *)
(* whether it ends in an uncaught exception, and the files it writes, as   *)
(* far as the presence of antibacterial_data.csv decides it.               *)
(*                                                                         *)
(* load_data of statistical_analysis.py (lines 8-15), data_visualization.py*)
(* (lines 13-20) and report_generator.py (lines 7-14): the frame, or the   *)
(* message and None when read_csv raises FileNotFoundError.                *)
(***************************************************************************)
load_data(exists) ==
    IF exists
      THEN [value |-> "df", printed |-> <<>>]
      ELSE [value |-> "None",
            printed |-> << "Data file not found. Please run data_generator.py first." >>]

(***************************************************************************)
(* load_and_prepare_data of machine_learning_analysis.py, lines 13-40:     *)
(* four values when the file is read, line 40, but the pair None, None of  *)
(* line 19 when it is missing.                                             *)
(***************************************************************************)
load_and_prepare_data(exists) ==
    IF exists
      THEN [values |-> << "X", "y", "df", "encoders" >>, printed |-> <<>>]
      ELSE [values |-> << "None", "None" >>,
            printed |-> << "Data file not found. Please run data_generator.py first." >>]

\* the files a script writes when it runs to its end
artifacts_of(script) ==
    CASE script = "data_generator.py" -> { "antibacterial_data.csv" }
      [] script = "statistical_analysis.py" -> {}
      [] script = "data_visualization.py" ->
            { "overview_plots.png", "activity_heatmap.png",
              "distribution_boxplots.png", "concentration_analysis.png",
              "effectiveness_ranking.png" }
      [] script = "machine_learning_analysis.py" ->
            { "feature_importance.png", "model_comparison.png" }
      [] script = "report_generator.py" ->
            { "antibacterial_analysis_report.html", "analysis_summary.txt" }

(***************************************************************************)
(* The analysis of a script whose data was loaded: it runs to its end and  *)
(* writes its files, or (analysis_ok false) it ends in an exception, which *)
(* no script catches; the files written before the exception are left out. *)
(***************************************************************************)
analysis(script, analysis_ok, printed) ==
    IF analysis_ok
      THEN [printed |-> Append(printed, "completed"),
            raised  |-> "none",
            wrote   |-> artifacts_of(script)]
      ELSE [printed |-> printed, raised |-> "Exception", wrote |-> {}]

(***************************************************************************)
(* main of statistical_analysis.py (lines 142-164), data_visualization.py  *)
(* (lines 193-221) and report_generator.py (lines 438-466): return when    *)
(* load_data gave None, the analysis otherwise.                            *)
(***************************************************************************)
main_of_loader(script, exists, analysis_ok) ==
    LET loaded == load_data(exists)
    IN  IF loaded.value = "None"
          THEN [printed |-> loaded.printed, raised |-> "none", wrote |-> {}]
          ELSE analysis(script, analysis_ok, loaded.printed)

(***************************************************************************)
(* main of machine_learning_analysis.py, lines 235-265: the heading, then  *)
(* X, y, df, encoders = load_and_prepare_data() at line 241, which raises  *)
(* ValueError when other than four values come back; return when X is      *)
(* None; the analysis otherwise.                                           *)
(***************************************************************************)
main_of_machine_learning(script, exists, analysis_ok) ==
    LET loaded == load_and_prepare_data(exists)
        printed == << "MACHINE LEARNING ANALYSIS" >> \o loaded.printed
    IN  IF Len(loaded.values) # 4
          THEN [printed |-> printed, raised |-> "ValueError", wrote |-> {}]
        ELSE IF loaded.values[1] = "None"
          THEN [printed |-> printed, raised |-> "none", wrote |-> {}]
        ELSE analysis(script, analysis_ok, printed)

\* the main of a consumer script
consumer_main(script, exists, analysis_ok) ==
    IF script = "machine_learning_analysis.py"
      THEN main_of_machine_learning(script, exists, analysis_ok)
      ELSE main_of_loader(script, exists, analysis_ok)

\* the exit status of the interpreter: 1 after an uncaught exception
exit_status(raised) == IF raised = "none" THEN 0 ELSE 1

(***************************************************************************)
(* antibacterial_data.csv as the runner's model holds it: there, with its  *)
(* header line.  The lines are left out: the scripts' analyses are         *)
(* modelled by their outcome only.                                         *)
(***************************************************************************)
DataFileThere == [exists |-> TRUE, header |-> Keys, lines |-> <<>>]

\* main is entered, with or without a data file left by an earlier run
InitPipeline ==
    /\ ml = MLNotStarted
    /\ mpc = "for"
    /\ step = 1
    /\ results = <<>>
    /\ procs = <<>>
    /\ result = [kind |-> "none"]
    /\ success = FALSE
    /\ console = << <<"BANNER">> >>
    /\ pc = "off"
    /\ pi = 1 /\ bi = 1
    /\ data = <<>>
    /\ draws = <<>>
    /\ seed = [np |-> 0, py |-> 0]
    /\ np_state = 0
    /\ py_state = 0
    /\ runs = 0
    /\ now = 0
    /\ df = NoFrame
    /\ file \in {NoFile, DataFileThere}
    /\ stdout = <<>>
    /\ returned = NoFrame

(***************************************************************************)
(* subprocess.run returns with the ended child, lines 12-27 and 17-27 of   *)
(* run_complete_analysis.py: what ChildExits does, for a child whose       *)
(* outcome out is known.                                                   *)
(***************************************************************************)
SubprocessReturns(out) ==
    LET rc == exit_status(out.raised)
    IN  /\ procs' = [procs EXCEPT ![Len(procs)] =
                       [script     |-> procs[Len(procs)].script,
                        state      |-> "exited",
                        returncode |-> rc,
                        printed    |-> out.printed,
                        raised     |-> out.raised,
                        wrote      |-> out.wrote]]
        /\ result' = [kind |-> "completed", returncode |-> rc]
        /\ console' = Append(console,
              IF rc = 0
                THEN <<"COMPLETED", analysis_steps[step][2]>>
                ELSE <<"FAILED", analysis_steps[step][2], rc>>)
        /\ success' = run_script_returns(result')
        /\ mpc' = "store"

(***************************************************************************)
(* The child running data_generator.py ends (lines 113-117 there): the     *)
(* file is written and the script ends with status 0, or the write of line *)
(* 108 raises before the file is opened and the script ends with status 1. *)
(***************************************************************************)
GeneratorChildEnds ==
    /\ mpc = "wait"
    /\ procs[Len(procs)].script = "data_generator.py"
    /\ \E written \in BOOLEAN :
          /\ file' = IF written THEN DataFileThere ELSE file
          /\ SubprocessReturns(
               IF written
                 THEN [printed |-> << "Data saved to 'antibacterial_data.csv'" >>,
                       raised  |-> "none",
                       wrote   |-> artifacts_of("data_generator.py")]
                 ELSE [printed |-> <<>>, raised |-> "OSError", wrote |-> {}])
    /\ UNCHANGED <<step, results>>
    /\ UNCHANGED <<pc, pi, bi, data, draws, np_state, py_state, now, df,
                   stdout, returned, seed, runs>>
    /\ UNCHANGED ml

\* the child running one of the four consumer scripts ends
ConsumerChildEnds ==
    /\ mpc = "wait"
    /\ procs[Len(procs)].script # "data_generator.py"
    /\ \E analysis_ok \in BOOLEAN :
          SubprocessReturns(consumer_main(procs[Len(procs)].script,
                                          file.exists, analysis_ok))
    /\ UNCHANGED <<step, results>>
    /\ UNCHANGED generator_vars
    /\ UNCHANGED ml

NextPipeline ==
    \/ CallRunScript
    \/ LaunchRaises
    \/ SpawnChild
    \/ GeneratorChildEnds
    \/ ConsumerChildEnds
    \/ StoreResult
    \/ Summary

\* one run of main with the five scripts as they are
SpecPipeline == InitPipeline /\ [][NextPipeline]_vars

(***************************************************************************)
(* The reload of the file by report_generator.py.                          *)
(*                                                                         *)
(* The texts pd.read_csv, line 10, takes for a missing value when no       *)
(* na_values are given.  "None" is one of them in the pandas releases that *)
(* list it among the defaults (2.x) and not in those before; which release *)
(* is installed is not fixed by the repository, so both are kept.          *)
(***************************************************************************)
default_na_values(none_is_na) ==
    { "", "#N/A", "#N/A N/A", "#NA", "-1.#IND", "-1.#QNAN", "-NaN", "-nan",
      "1.#IND", "1.#QNAN", "<NA>", "N/A", "NA", "NULL", "NaN", "n/a", "nan",
      "null" }
    \cup (IF none_is_na THEN { "None" } ELSE {})

\* the missing value of a loaded frame
NaN == "NaN (missing)"

\* the columns of the file whose cells are text
TextColumns == { "Plant_Extract", "Bacteria", "Activity_Level" }

(***************************************************************************)
(* pd.read_csv('antibacterial_data.csv'), report_generator.py line 10, on  *)
(* a file that exists: one row per line, a cell under each name of the     *)
(* header; a text cell that is one of the missing-value texts is loaded as *)
(* NaN.                                                                    *)
(***************************************************************************)
read_csv(f, none_is_na) ==
    [columns |-> f.header,
     rows    |-> [k \in 1..Len(f.lines) |->
                    [name \in { f.header[j] : j \in 1..Len(f.header) } |->
                       LET j == CHOOSE i \in 1..Len(f.header) :
                                   f.header[i] = name
                           cell == f.lines[k][j]
                       IN  IF name \in TextColumns
                              /\ cell \in default_na_values(none_is_na)
                             THEN NaN
                             ELSE cell]]]

(***************************************************************************)
(* df[column].value_counts(), line 30: the number of rows of each value of *)
(* the column, the missing ones dropped; and .get(value, 0), lines 31-34.  *)
(***************************************************************************)
value_counts(frame, column) ==
    [v \in { frame.rows[k][column] : k \in 1..Len(frame.rows) } \ { NaN } |->
       Cardinality({ k \in 1..Len(frame.rows) : frame.rows[k][column] = v })]

get(counts, value, default) ==
    IF value \in DOMAIN counts THEN counts[value] ELSE default

(***************************************************************************)
(* generate_summary_statistics, lines 16-36, as far as the activity levels *)
(* go: total_tests and the four counts that lines 31-34 divide by it.      *)
(***************************************************************************)
generate_summary_statistics(frame) ==
    LET activity_dist == value_counts(frame, "Activity_Level")
    IN  [total_tests       |-> Len(frame.rows),
         high_activity     |-> get(activity_dist, "High", 0),
         moderate_activity |-> get(activity_dist, "Moderate", 0),
         low_activity      |-> get(activity_dist, "Low", 0),
         no_activity       |-> get(activity_dist, "None", 0)]

(***************************************************************************)
(* machine_learning_analysis.py from train_models on.  Feature values are  *)
(* fixed-point numbers in thousandths, predictions are in 1/Scale mm like  *)
(* the generator's values.  What the fitted models compute is not          *)
(* modelled: R2 scores and predictions are any of a few values.            *)
(***************************************************************************)
Milli == 1000

\* LabelEncoder.classes_, lines 26-27: the labels of the column, sorted
plant_classes ==
    << "Cinnamon (Cinnamomum verum)",
       "Clove (Syzygium aromaticum)",
       "Eucalyptus (Eucalyptus globulus)",
       "Garlic (Allium sativum)",
       "Ginger (Zingiber officinale)",
       "Neem (Azadirachta indica)",
       "Oregano (Origanum vulgare)",
       "Tea Tree (Melaleuca alternifolia)",
       "Thyme (Thymus vulgaris)",
       "Turmeric (Curcuma longa)" >>

bacteria_classes ==
    << "Bacillus subtilis",
       "Enterococcus faecalis",
       "Escherichia coli",
       "Klebsiella pneumoniae",
       "Pseudomonas aeruginosa",
       "Salmonella typhimurium",
       "Staphylococcus aureus",
       "Streptococcus pyogenes" >>

\* encoder.transform([label])[0], lines 211-212: the 0-based place of the
\* label among the classes
label_transform(classes, label) ==
    (CHOOSE i \in 1..Len(classes) : classes[i] = label) - 1

\* test_combinations, lines 198-204
test_combinations ==
    << <<"Clove (Syzygium aromaticum)", "Pseudomonas aeruginosa", 150>>,
       <<"Tea Tree (Melaleuca alternifolia)", "Staphylococcus aureus", 75>>,
       <<"Garlic (Allium sativum)", "Escherichia coli", 125>>,
       <<"Oregano (Origanum vulgare)", "Salmonella typhimurium", 100>>,
       <<"Neem (Azadirachta indica)", "Klebsiella pneumoniae", 200>> >>

\* the models in the order of the dict of lines 53-57
model_names == << "Linear Regression", "Random Forest", "Gradient Boosting" >>

(***************************************************************************)
(* StandardScaler fitted on X_train, lines 48-49: per feature the mean and *)
(* the standard deviation, in thousandths.  They depend on the split; two  *)
(* fits are kept, that of the whole design (plants 0..9, bacteria 0..7,    *)
(* the five concentrations) and one a little off it.                       *)
(***************************************************************************)
Scalers ==
    { [mean |-> <<4500, 3500, 77000>>, scale |-> <<2872, 2291, 68702>>],
      [mean |-> <<4450, 3520, 76500>>, scale |-> <<2880, 2300, 68000>>] }

\* the R2 scores a model can come to, line 80, in hundredths
R2Values == {35, 80, 85}

\* the predictions a model can make, line 216: below 0, 0, and each
\* threshold with the value next below it
Predictions ==
    { 0 - 5 * Scale, 0, 10 * Scale - 1, 10 * Scale, 15 * Scale - 1,
      15 * Scale, 20 * Scale - 1, 20 * Scale, 25 * Scale }

\* np.array([[...]]), line 215, and the rows of X: the values as they are
np_array(X) == [i \in 1..Len(X) |-> X[i] * Milli]

\* scaler.transform, lines 49-50: (x - mean) / scale per feature
scaler_transform(scaler, X) ==
    [i \in 1..Len(X) |->
       ((X[i] * Milli - scaler.mean[i]) * Milli) \div scaler.scale[i]]

\* lines 67-74: the features a model is fitted on, for a row X of the data:
\* scaled for Linear Regression, as they are for the tree models
fit_input(name, scaler, X) ==
    IF name = "Linear Regression"
      THEN scaler_transform(scaler, X)
      ELSE np_array(X)

\* max(results.keys(), key=lambda k: results[k]['r2']), line 187: the first
\* key, in dict order, of the largest r2
best_of(res) ==
    LET top == CHOOSE v \in { res[n].r2 : n \in 1..Len(res) } :
                  \A n \in 1..Len(res) : res[n].r2 <= v
        first == CHOOSE n \in 1..Len(res) :
                    /\ res[n].r2 = top
                    /\ \A m \in 1..(n - 1) : res[m].r2 # top
    IN  res[first].name

\* variant: the tier bounds taken as strict
activity_of_strict(prediction) ==
    IF prediction > 20 * Scale THEN "High"
    ELSE IF prediction > 15 * Scale THEN "Moderate"
    ELSE IF prediction > 10 * Scale THEN "Low"
    ELSE "None"

\* lines 219-226: the if / elif chain on the prediction
activity_of(prediction) ==
    IF prediction >= 20 * Scale THEN "High"
    ELSE IF prediction >= 15 * Scale THEN "Moderate"
    ELSE IF prediction >= 10 * Scale THEN "Low"
    ELSE "None"

\* main has loaded the data and is about to call train_models, line 250
InitML ==
    /\ ml = [MLNotStarted EXCEPT !.pc = "train"]
    /\ RunnerNotStarted
    /\ pc = "off"
    /\ pi = 1 /\ bi = 1
    /\ data = <<>>
    /\ draws = <<>>
    /\ seed = [np |-> 0, py |-> 0]
    /\ np_state = 0
    /\ py_state = 0
    /\ runs = 0
    /\ now = 0
    /\ df = NoFrame
    /\ file = DataFileThere
    /\ stdout = <<>>
    /\ returned = NoFrame

\* train_models, lines 42-103: the scaler is fitted, each model is fitted
\* and scored, and results holds an entry per model in dict order; X_fit is
\* what the model was given at fit for the row of Garlic (3), Escherichia
\* coli (2) and concentration 10
TrainModels ==
    /\ ml.pc = "train"
    /\ \E scaler \in Scalers : \E r2 \in [1..Len(model_names) -> R2Values] :
          ml' = [ml EXCEPT
                   !.pc = "select",
                   !.scaler = scaler,
                   !.results = [n \in 1..Len(model_names) |->
                                  [name  |-> model_names[n],
                                   r2    |-> r2[n],
                                   X_fit |-> fit_input(model_names[n], scaler,
                                                       <<3, 2, 10>>)]]]
    /\ UNCHANGED generator_vars
    /\ UNCHANGED runner_vars

\* predict_new_combinations, lines 186-207: the best model is chosen
SelectBestModel ==
    /\ ml.pc = "select"
    /\ ml' = [ml EXCEPT !.pc = "predict",
                        !.best_model_name = best_of(ml.results),
                        !.combo = 1]
    /\ UNCHANGED generator_vars
    /\ UNCHANGED runner_vars

\* one pass of the loop of lines 209-233: the inputs are encoded, X_new is
\* built and given as it is to best_model.predict, the prediction gets its
\* activity level
PredictCombination ==
    /\ ml.pc = "predict"
    /\ LET plant == test_combinations[ml.combo][1]
           bacterium == test_combinations[ml.combo][2]
           concentration == test_combinations[ml.combo][3]
           plant_encoded == label_transform(plant_classes, plant)
           bacteria_encoded == label_transform(bacteria_classes, bacterium)
           X_new == np_array(<<plant_encoded, bacteria_encoded, concentration>>)
       IN  \E prediction \in Predictions :
              ml' = [ml EXCEPT
                       !.X_new = X_new,
                       !.prediction = prediction,
                       !.activity = activity_of(prediction),
                       !.combo = ml.combo + 1,
                       !.pc = IF ml.combo < Len(test_combinations)
                                THEN "predict" ELSE "done"]
    /\ UNCHANGED generator_vars
    /\ UNCHANGED runner_vars

NextML == TrainModels \/ SelectBestModel \/ PredictCombination

\* machine_learning_analysis.py from line 250 to the end of the predictions
SpecML == InitML /\ [][NextML]_vars

(***************************************************************************)
(* Helpers of the properties below.                                        *)
(***************************************************************************)
\* the threshold function of the documentation on a stored value (hundredths)
TierOfStored(h) ==
    IF h >= 2000 THEN "High"
    ELSE IF h >= 1500 THEN "Moderate"
    ELSE IF h >= 1000 THEN "Low"
    ELSE "None"

\* the positions of the records of one cell of the design
CellRows(rows, plant, bacterium, concentration) ==
    { k \in 1..Len(rows) :
        /\ rows[k].Plant_Extract = plant
        /\ rows[k].Bacteria = bacterium
        /\ rows[k].Concentration_mg_mL = concentration }

\* the value of record k before the clamp: lines 81-82 with its own draw
Raw(k) ==
    base_zone(data[k].Plant_Extract, data[k].Bacteria,
              data[k].Concentration_mg_mL) + draws[k]

\* record k is the one of Clove, Pseudomonas aeruginosa, 200 with noise 0
C10_Case(k) ==
    /\ data[k].Plant_Extract = "Clove (Syzygium aromaticum)"
    /\ data[k].Bacteria = "Pseudomonas aeruginosa"
    /\ data[k].Concentration_mg_mL = 200
    /\ draws[k] = 0

(***************************************************************************)
(* C1.  Every record's Activity_Level is the threshold function (>= 20     *)
(* High, >= 15 Moderate, >= 10 Low, else None) of the stored, rounded      *)
(* Inhibition_Zone_mm of the same record.                                  *)
(***************************************************************************)
C1_TierMatchesStoredValue ==
    \A k \in 1..Len(data) :
        data[k].Activity_Level = TierOfStored(data[k].Inhibition_Zone_mm)

(***************************************************************************)
(* C2.  A run returns exactly |extracts| * |bacteria| * |concentrations|   *)
(* * 3 records, which is 1200, and writes as many lines.                   *)
(***************************************************************************)
C2_RecordCount ==
    pc = "done" =>
        /\ Len(returned.rows) =
             Len(plant_extracts) * Len(bacteria) * Len(concentrations) * 3
        /\ Len(returned.rows) = 1200
        /\ Len(file.lines) = 1200

C2_Witness == pc = "done" /\ Len(returned.rows) = 1200

(***************************************************************************)
(* C3.  In the returned record set every (extract, bacterium,              *)
(* concentration) triple of the catalogs occurs exactly 3 times, with      *)
(* Replicate values exactly 1, 2 and 3: no cell is missing and no          *)
(* (extract, bacterium, concentration, replicate) tuple occurs twice.      *)
(***************************************************************************)
C3_FullFactorial ==
    pc = "done" =>
        \A p \in 1..Len(plant_extracts), b \in 1..Len(bacteria),
           c \in 1..Len(concentrations) :
            LET cell == CellRows(returned.rows, plant_extracts[p], bacteria[b],
                                 concentrations[c])
            IN  /\ Cardinality(cell) = 3
                /\ { returned.rows[k].Replicate : k \in cell } = {1, 2, 3}

C3_Witness ==
    /\ pc = "done"
    /\ Cardinality(CellRows(returned.rows, "Clove (Syzygium aromaticum)",
                            "Klebsiella pneumoniae", 200)) = 3

(***************************************************************************)
(* C4.  Every record's Inhibition_Zone_mm is >= 0, also when base effect   *)
(* plus noise is negative.                                                 *)
(***************************************************************************)
C4_NonNegative ==
    \A k \in 1..Len(data) : data[k].Inhibition_Zone_mm >= 0

C4_Witness ==
    \E k \in 1..Len(data) : Raw(k) < 0 /\ data[k].Inhibition_Zone_mm = 0

(***************************************************************************)
(* C7.  The tier given to a value v >= 0 is the one tier whose range holds *)
(* v: [20, oo) High, [15, 20) Moderate, [10, 15) Low, [0, 10) None.        *)
(***************************************************************************)
C7_TierPartition ==
    \A k \in 1..Len(data) :
        LET v == IF Raw(k) > 0 THEN Raw(k) ELSE 0
            holds == [ High     |-> v >= 20 * Scale,
                       Moderate |-> 15 * Scale <= v /\ v < 20 * Scale,
                       Low      |-> 10 * Scale <= v /\ v < 15 * Scale,
                       None     |-> 0 <= v /\ v < 10 * Scale ]
        IN  { t \in DOMAIN holds : holds[t] } = { data[k].Activity_Level }

\* each lower bound is met exactly, and a value just below one
C7_Witness ==
    /\ \E k \in 1..Len(data) :
          Raw(k) = 20 * Scale /\ data[k].Activity_Level = "High"
    /\ \E k \in 1..Len(data) :
          Raw(k) = 15 * Scale /\ data[k].Activity_Level = "Moderate"
    /\ \E k \in 1..Len(data) :
          Raw(k) = 10 * Scale /\ data[k].Activity_Level = "Low"
    /\ \E k \in 1..Len(data) :
          Raw(k) < 15 * Scale /\ Raw(k) > 15 * Scale - Scale \div 100
             /\ data[k].Activity_Level = "Low"

(***************************************************************************)
(* C8.  The exported file always has exactly the 7 columns Plant_Extract,  *)
(* Bacteria, Concentration_mg_mL, Replicate, Inhibition_Zone_mm,           *)
(* Activity_Level, Test_Date, in that order, and every line has 7 cells.   *)
(***************************************************************************)
C8_Columns ==
    file.exists =>
        /\ file.header = << "Plant_Extract", "Bacteria", "Concentration_mg_mL",
                            "Replicate", "Inhibition_Zone_mm", "Activity_Level",
                            "Test_Date" >>
        /\ \A k \in 1..Len(file.lines) : Len(file.lines[k]) = 7

C8_Witness == file.exists /\ Len(file.lines) > 0

(***************************************************************************)
(* C5 as stated.  Given an identical explicit seed, a second run builds    *)
(* the same output as the first: each record it produces equals the record *)
(* of the first run at the same place in every column, Test_Date included. *)
(***************************************************************************)
C5_SameSeedSameOutput ==
    runs >= 2 =>
        \A k \in 1..Len(data) : data[k] = returned.rows[k]

(***************************************************************************)
(* C5 as amended.  Given identical seeds of both generators, each record   *)
(* of a second run equals the record of the first run at the same place in *)
(* every column but Test_Date, and the two runs have the same columns.     *)
(***************************************************************************)
C5_SameSeedSameButDate ==
    runs >= 2 =>
        /\ \A k \in 1..Len(data) :
              \A c \in DOMAIN data[k] \ {"Test_Date"} :
                 data[k][c] = returned.rows[k][c]
        /\ pc \in {"print", "done"} =>
              /\ df.columns = returned.columns
              /\ Len(df.rows) = Len(returned.rows)

C5_Witness ==
    /\ runs >= 2
    /\ \E k \in 1..Len(data) :
          /\ data[k].Test_Date # returned.rows[k].Test_Date
          /\ data[k].Inhibition_Zone_mm = returned.rows[k].Inhibition_Zone_mm
          /\ data[k].Inhibition_Zone_mm > 0

(***************************************************************************)
(* C6 as stated.  The generator writes no file: the file is never changed. *)
(***************************************************************************)
C6_NoFileWritten == [][file' = file]_vars

(***************************************************************************)
(* C6 as amended.  Beyond returning the record set the generator writes    *)
(* it to antibacterial_data.csv: nothing is written while the records are  *)
(* generated, and from line 108 on the file holds the header and one line  *)
(* per record of the frame, cell by cell.                                  *)
(***************************************************************************)
C6_WritesTheCsvItself ==
    /\ pc \in {"loop", "frame"} => ~file.exists
    /\ pc \in {"print", "done"} =>
        /\ file.exists
        /\ Len(file.lines) = Len(df.rows)
        /\ \A k \in 1..Len(file.lines) :
             \A j \in 1..Len(file.header) :
                file.lines[k][j] = df.rows[k][file.header[j]]

C6_Witness == pc = "done" /\ file.exists /\ Len(file.lines) = 1200

(***************************************************************************)
(* C10 as stated.  With noise 0 the record of Clove, Pseudomonas           *)
(* aeruginosa and concentration 200 has inhibition zone                    *)
(* (19 + log10(20)*3) * 0.6, which is 13.75 to the stored two decimals,    *)
(* and Activity_Level Low.                                                 *)
(***************************************************************************)
C10_Scenario1375 ==
    \A k \in 1..Len(data) :
        C10_Case(k) =>
            /\ data[k].Inhibition_Zone_mm = 1375
            /\ data[k].Activity_Level = "Low"

(***************************************************************************)
(* C10 as amended.  The same record has inhibition zone                    *)
(* (19 + log10(20)*3) * 0.6 = 13.741854, stored as 13.74, and Low.         *)
(***************************************************************************)
C10_Scenario1374 ==
    \A k \in 1..Len(data) :
        C10_Case(k) =>
            /\ Raw(k) * 10 = (19 * Scale + 3 * 1301030) * 6
            /\ Raw(k) = 13741854
            /\ data[k].Inhibition_Zone_mm = 1374
            /\ data[k].Activity_Level = "Low"

C10_Witness ==
    \E k \in 1..Len(data) : C10_Case(k) /\ data[k].Inhibition_Zone_mm = 1374

(***************************************************************************)
(* C11.  For every extract and bacterium the concentration effect at       *)
(* concentration 10 is exactly 0, so the value before the noise is         *)
(* base * resistanceFactor, and a record of concentration 10 whose noise   *)
(* is 0 stores exactly base * resistanceFactor.                            *)
(***************************************************************************)
C11_ReferenceConcentration ==
    /\ \A p \in 1..Len(plant_extracts), b \in 1..Len(bacteria) :
          base_zone(plant_extracts[p], bacteria[b], 10) * 10 =
             plant_effectiveness[plant_extracts[p]].base
               * bacterial_resistance[bacteria[b]] * Scale
    /\ \A k \in 1..Len(data) :
          (data[k].Concentration_mg_mL = 10 /\ draws[k] = 0) =>
             data[k].Inhibition_Zone_mm =
                plant_effectiveness[data[k].Plant_Extract].base
                  * bacterial_resistance[data[k].Bacteria] * 10

\* Thyme (17) and Bacillus subtilis (1.4): 23.80
C11_Witness ==
    \E k \in 1..Len(data) :
        /\ data[k].Concentration_mg_mL = 10 /\ draws[k] = 0
        /\ data[k].Plant_Extract = "Thyme (Thymus vulgaris)"
        /\ data[k].Bacteria = "Bacillus subtilis"
        /\ data[k].Inhibition_Zone_mm = 2380

\* the positions in data of the records of the pass that wrote record k
\* (one extract, one bacterium: lines 69-70 run inside lines 67-68)
PassOf(k) ==
    LET size  == Len(concentrations) * NumReplicates
        first == ((k - 1) \div size) * size + 1
    IN  { j \in first..(first + size - 1) : j <= Len(data) }

\* the expected inhibition zone: the value with noise 0, after the clamp
Expected(plant, bacterium, concentration) ==
    LET v == base_zone(plant, bacterium, concentration)
    IN  IF v > 0 THEN v ELSE 0

(***************************************************************************)
(* C12.  For every extract and bacterium the expected inhibition zone      *)
(* (noise 0, after the clamp) is non-decreasing along the concentrations   *)
(* 10, 25, 50, 100, 200; so are the stored values of the records of one    *)
(* extract and bacterium whose noise is 0.                                 *)
(***************************************************************************)
C12_MonotoneInConcentration ==
    /\ \A p \in 1..Len(plant_extracts), b \in 1..Len(bacteria) :
          \A c \in 1..(Len(concentrations) - 1) :
             /\ concentrations[c] < concentrations[c + 1]
             /\ Expected(plant_extracts[p], bacteria[b], concentrations[c])
                  <= Expected(plant_extracts[p], bacteria[b],
                              concentrations[c + 1])
    /\ \A k \in 1..Len(data) : \A j \in PassOf(k) :
          ( /\ data[j].Plant_Extract = data[k].Plant_Extract
            /\ data[j].Bacteria = data[k].Bacteria
            /\ draws[j] = 0 /\ draws[k] = 0
            /\ data[j].Concentration_mg_mL <= data[k].Concentration_mg_mL )
          => data[j].Inhibition_Zone_mm <= data[k].Inhibition_Zone_mm

\* two records of one cell with noise 0, the higher dose strictly larger
C12_Witness ==
    \E k \in 1..Len(data) : \E j \in PassOf(k) :
        /\ data[j].Plant_Extract = data[k].Plant_Extract
        /\ data[j].Bacteria = data[k].Bacteria
        /\ draws[j] = 0 /\ draws[k] = 0
        /\ data[j].Concentration_mg_mL < data[k].Concentration_mg_mL
        /\ data[j].Inhibition_Zone_mm < data[k].Inhibition_Zone_mm

\* every key the loops look up is a key of its parameter table
LookupsSucceed ==
    /\ \A p \in 1..Len(plant_extracts) :
          plant_extracts[p] \in DOMAIN plant_effectiveness
    /\ \A b \in 1..Len(bacteria) :
          bacteria[b] \in DOMAIN bacterial_resistance

(***************************************************************************)
(* C13 as stated.  The generator has no failure mode: every lookup in the  *)
(* parameter tables succeeds and no run ends in an I/O error or in a       *)
(* partial-failure state.                                                  *)
(***************************************************************************)
C13_NoFailureMode == LookupsSucceed /\ pc # "raised"

\* the steps a run still has to take: the passes of the loops left, the
\* write and the return; none once it has returned or raised
Remaining ==
    IF pc = "loop"
      THEN (Len(plant_extracts) - pi) * Len(bacteria)
             + (Len(bacteria) - bi) + 1 + 2
    ELSE IF pc = "frame" THEN 2
    ELSE IF pc = "print" THEN 1
    ELSE 0

\* a run that has not ended has its next statement to execute
HasNextStatement ==
    \/ /\ pc = "loop"
       /\ pi \in 1..Len(plant_extracts)
       /\ bi \in 1..Len(bacteria)
    \/ pc \in {"frame", "print"}

(***************************************************************************)
(* C13 as amended.  Every lookup in the parameter tables succeeds and      *)
(* every run ends, with the complete record set of 1200 built before it    *)
(* ends: each step leaves fewer steps to take, and a run that has not      *)
(* returned or raised has a next statement.  The one failure is the write  *)
(* of line 108, after which the run has ended with the frame built,        *)
(* nothing printed and nothing returned.                                   *)
(***************************************************************************)
C13_TerminatesUnlessWriteFails ==
    [][ /\ LookupsSucceed
        /\ HasNextStatement
        /\ Remaining' >= 0 /\ Remaining' < Remaining
        /\ pc' \in {"done", "raised"} \/ HasNextStatement'
        /\ pc' = "loop" =>
              Len(data') = ((pi' - 1) * Len(bacteria) + (bi' - 1))
                             * Len(concentrations) * NumReplicates
        /\ pc' \in {"frame", "print", "done", "raised"} =>
              Len(data') = 1200
        /\ pc' = "done" => Len(returned'.rows) = 1200
        /\ pc' = "raised" =>
              /\ Len(df'.rows) = 1200
              /\ stdout' = <<>>
              /\ returned' = NoFrame ]_vars

\* a run that ended at line 108 and left half of the lines in the file
C13_Witness ==
    /\ pc = "raised"
    /\ file.exists
    /\ Len(file.lines) = 600
    /\ Len(data) = 1200

(***************************************************************************)
(* C14.  Every run starts from an empty record list and the write of line  *)
(* 108 replaces the file: once a run has written, whatever number of runs  *)
(* came before, the file holds exactly the 1200 records of that run, line  *)
(* by line, and never more.                                                *)
(***************************************************************************)
C14_FileOfMostRecentRun ==
    /\ Len(data) <= 1200
    /\ pc \in {"print", "done"} =>
         /\ file.exists
         /\ Len(file.lines) = 1200
         /\ Len(data) = 1200
         /\ \A k \in 1..Len(file.lines) :
               file.lines[k] = [j \in 1..Len(Keys) |-> data[k][Keys[j]]]

\* the second run has written: the first line carries a date stamped after
\* the 1200 stamps of the first run
C14_Witness ==
    /\ runs = 2
    /\ pc = "done"
    /\ Len(file.lines) = 1200
    /\ file.lines[1][7] = data[1].Test_Date
    /\ \E d \in 1..30 : file.lines[1][7] = 1200 - d * DayTicks

\* the reading of the clock at which record k was stamped: the clock is
\* read once per record, line 104
StampOf(k) == now - Len(data) + (k - 1)

(***************************************************************************)
(* C15.  Every record's Test_Date is the time at which it was stamped      *)
(* minus a whole number d of days with 1 <= d <= 30.                       *)
(***************************************************************************)
C15_TestDateInPast30Days ==
    \A k \in 1..Len(data) :
        \E d \in 1..30 : data[k].Test_Date = StampOf(k) - d * DayTicks

\* both ends of the range occur
C15_Witness ==
    /\ \E k \in 1..Len(data) : data[k].Test_Date = StampOf(k) - 1 * DayTicks
    /\ \E k \in 1..Len(data) : data[k].Test_Date = StampOf(k) - 30 * DayTicks

(***************************************************************************)
(* C16.  Every record's stored Inhibition_Zone_mm is                       *)
(* round2(max(0, (base + 3*log10(concentration/10)) * resistanceFactor     *)
(* + noise)): the noise is added to the product, not multiplied by the     *)
(* resistance factor; the clamp at 0 comes after the noise; the rounding   *)
(* to the nearest hundredth comes last.                                    *)
(***************************************************************************)
C16_StoredValueFormula ==
    \A k \in 1..Len(data) :
        LET e == plant_effectiveness[data[k].Plant_Extract]
            f == bacterial_resistance[data[k].Bacteria]
            product == ((e.base * Scale
                          + 3 * Log10Micro[data[k].Concentration_mg_mL]) * f)
                         \div 10
            noisy == product + draws[k]
            clamped == IF noisy < 0 THEN 0 ELSE noisy
            off == data[k].Inhibition_Zone_mm * (Scale \div 100) - clamped
        IN  /\ off \in (0 - Scale \div 200)..(Scale \div 200)
            /\ (off = Scale \div 200 \/ off = 0 - Scale \div 200) =>
                  data[k].Inhibition_Zone_mm % 2 = 0

\* a record with a resistance factor other than 1, noise other than 0 and
\* digits to round away, and a record whose noise takes it below 0
C16_Witness ==
    /\ \E k \in 1..Len(data) :
          /\ bacterial_resistance[data[k].Bacteria] # 10
          /\ draws[k] # 0
          /\ Raw(k) > 0
          /\ Raw(k) % (Scale \div 100) # 0
    /\ \E k \in 1..Len(data) :
          /\ bacterial_resistance[data[k].Bacteria] # 10
          /\ Raw(k) < 0
          /\ data[k].Inhibition_Zone_mm = 0

(***************************************************************************)
(* C17.  One noise draw is consumed per record: the k-th record of a run   *)
(* takes the k-th draw of the generator, scaled by its own extract's       *)
(* variance.  Its Inhibition_Zone_mm and Activity_Level are functions of   *)
(* its own extract, bacterium, concentration and that draw alone.          *)
(***************************************************************************)
C17_OwnDrawOnly ==
    /\ Len(draws) = Len(data)
    /\ np_state = seed.np + Len(data)
    /\ \A k \in 1..Len(data) :
          /\ draws[k] =
                plant_effectiveness[data[k].Plant_Extract].variance
                  * StdNormal[((seed.np + k - 1) % Len(StdNormal)) + 1]
          /\ data[k].Inhibition_Zone_mm = round2(Max0(Raw(k)))
          /\ data[k].Activity_Level = classify(Max0(Raw(k)))

\* neighbours in one cell (same extract, bacterium, concentration) whose
\* draws differ, and with them value and tier
C17_Witness ==
    \E k \in 1..(Len(data) - 1) :
        /\ data[k].Plant_Extract = data[k + 1].Plant_Extract
        /\ data[k].Bacteria = data[k + 1].Bacteria
        /\ data[k].Concentration_mg_mL = data[k + 1].Concentration_mg_mL
        /\ draws[k] # draws[k + 1]
        /\ data[k].Inhibition_Zone_mm # data[k + 1].Inhibition_Zone_mm
        /\ data[k].Activity_Level # data[k + 1].Activity_Level

\* the heading lines run_script has printed, one per call, in order
IsHeading(line) == line[1] = "RUNNING"
Headings == SelectSeq(console, IsHeading)

\* the place of a script in the order the documentation gives
PlaceOf(script) ==
    CASE script = "data_generator.py" -> 1
      [] script = "statistical_analysis.py" -> 2
      [] script = "data_visualization.py" -> 3
      [] script = "machine_learning_analysis.py" -> 4
      [] script = "report_generator.py" -> 5
      [] OTHER -> 0

(***************************************************************************)
(* C18.  main runs the steps in the order Data Generation, Statistical     *)
(* Analysis, Data Visualization, Machine Learning Analysis, Report         *)
(* Generation: the n-th call of run_script is for the n-th of them, the    *)
(* processes started are scripts of strictly rising place (so none is run  *)
(* twice), a process is that of the step last entered, and no process is   *)
(* started or step entered while an earlier process is still running.      *)
(***************************************************************************)
C18_StepsInOrder ==
    LET names == << "Data Generation", "Statistical Analysis",
                    "Data Visualization", "Machine Learning Analysis",
                    "Report Generation" >>
    IN  /\ Len(Headings) <= 5
        /\ \A n \in 1..Len(Headings) : Headings[n][2] = names[n]
        /\ \A i \in 1..Len(procs) :
              /\ PlaceOf(procs[i].script) \in 1..Len(Headings)
              /\ \A j \in 1..(i - 1) :
                    PlaceOf(procs[j].script) < PlaceOf(procs[i].script)
              /\ i < Len(procs) => procs[i].state = "exited"
        /\ (procs # <<>> /\ procs[Len(procs)].state = "running") =>
              /\ mpc = "wait"
              /\ PlaceOf(procs[Len(procs)].script) = Len(Headings)
        /\ mpc = "end" => Len(Headings) = 5

\* all five processes were started and have ended, one of them with a
\* return code other than 0
C18_Witness ==
    /\ mpc = "end"
    /\ Len(procs) = 5
    /\ procs[2].returncode = 1
    /\ procs[5].script = "report_generator.py"
    /\ procs[5].state = "exited"

(***************************************************************************)
(* C19.  A failed step does not stop the pipeline: every run of main       *)
(* reaches the final summary, and there run_script has been called for     *)
(* each of the five steps, results holds an outcome for each of the five,  *)
(* in order, and the summary has a status line for each.                   *)
(***************************************************************************)
C19_AllStepsAttempted ==
    /\ [](mpc = "end" =>
            /\ Len(Headings) = 5
            /\ Len(results) = 5
            /\ \A n \in 1..5 :
                  /\ results[n][1] = Headings[n][2]
                  /\ results[n][2] \in BOOLEAN
                  /\ \E k \in 1..Len(console) :
                        /\ console[k][1] = "STATUS"
                        /\ console[k][2] = results[n][1])
    /\ <>(mpc = "end")

\* the first step failed, the later ones were run all the same
C19_Witness ==
    /\ mpc = "end"
    /\ Len(results) = 5
    /\ results[1] = <<"Data Generation", FALSE>>
    /\ results[2] = <<"Statistical Analysis", FALSE>>
    /\ results[5] = <<"Report Generation", TRUE>>
    /\ Len(procs) = 4

(***************************************************************************)
(* C20.  When run_script has returned, its value is True if and only if    *)
(* the process was launched without an exception and ended with return     *)
(* code 0; after an exception at the launch or a return code other than 0  *)
(* it is False, and main goes on at line 56: nothing is propagated.        *)
(***************************************************************************)
C20_RunScriptValue ==
    mpc = "store" =>
        /\ result.kind \in {"raised", "completed"}
        /\ success = (result.kind = "completed" /\ result.returncode = 0)
        /\ result.kind = "raised" => success = FALSE
        /\ (result.kind = "completed" /\ result.returncode # 0) =>
              success = FALSE

\* run_script has returned False after an exception, True before that for a
\* return code 0 and False for a child ended by a signal
C20_Witness ==
    /\ mpc = "store"
    /\ step = 3
    /\ result.kind = "raised"
    /\ success = FALSE
    /\ results = << <<"Data Generation", TRUE>>,
                    <<"Statistical Analysis", FALSE>> >>
    /\ Len(procs) = 2
    /\ procs[2].returncode = 0 - 9

\* the lines run_script printed on returning True, one per such call
IsCompleted(line) == line[1] = "COMPLETED"
Completed == SelectSeq(console, IsCompleted)

\* the lines of the console with a given tag
Tagged(tag) == { k \in 1..Len(console) : console[k][1] = tag }

(***************************************************************************)
(* C21.  In the final summary the number of successful steps is the number *)
(* of steps for which run_script returned True, out of 5; the              *)
(* complete-success message is printed if and only if that number is 5,    *)
(* and otherwise the failed count printed is 5 minus it.                   *)
(***************************************************************************)
C21_SummaryCounts ==
    mpc = "end" =>
        /\ Len(Completed) \in 0..5
        /\ \E k \in Tagged("RATE") :
              /\ Tagged("RATE") = {k}
              /\ console[k][2] = Len(Completed)
              /\ console[k][3] = 5
        /\ Tagged("COMPLETE") # {} <=> Len(Completed) = 5
        /\ Tagged("FAILED_STEPS") # {} <=> Len(Completed) < 5
        /\ \A k \in Tagged("FAILED_STEPS") :
              console[k][2] = 5 - Len(Completed)
        /\ \A n \in 1..Len(results) :
              results[n][2] <=>
                 \E k \in 1..Len(Completed) : Completed[k][2] = results[n][1]

\* three of five steps returned True
C21_Witness ==
    /\ mpc = "end"
    /\ Len(Completed) = 3
    /\ \E k \in Tagged("RATE") : console[k] = <<"RATE", 3, 5>>
    /\ \E k \in Tagged("FAILED_STEPS") : console[k] = <<"FAILED_STEPS", 2>>
    /\ Tagged("COMPLETE") = {}

\* the consumer scripts
Consumers == { "statistical_analysis.py", "data_visualization.py",
               "machine_learning_analysis.py", "report_generator.py" }

(***************************************************************************)
(* C22.  When antibacterial_data.csv does not exist, every consumer script *)
(* that has run reported the missing file, and its main returned without   *)
(* an exception and without writing a file.                                *)
(***************************************************************************)
C22_MissingFileHandled ==
    \A i \in 1..Len(procs) :
        ( /\ procs[i].state = "exited"
          /\ procs[i].script \in Consumers
          /\ ~file.exists )
        => /\ \E k \in 1..Len(procs[i].printed) :
                 procs[i].printed[k] =
                    "Data file not found. Please run data_generator.py first."
           /\ procs[i].raised = "none"
           /\ procs[i].wrote = {}

(***************************************************************************)
(* C23.  If the Data Generation step failed and no data file exists, the   *)
(* summary reports none of the four later steps as SUCCESS.                *)
(***************************************************************************)
C23_NoSuccessWithoutData ==
    ( /\ mpc = "end"
      /\ ~file.exists
      /\ results[1] = <<"Data Generation", FALSE>> )
    => \A k \in Tagged("STATUS") :
          console[k][2] # "Data Generation" => console[k][3] # "SUCCESS"

(***************************************************************************)
(* C24.  Once the file is written, the reload by the report generator      *)
(* gives every record the Activity_Level the generator gave it, and in     *)
(* generate_summary_statistics the counts of High, Moderate, Low and None  *)
(* add up to total_tests, so that the four percentages add up to 100.      *)
(***************************************************************************)
C24_ActivityLevelRoundTrip ==
    pc = "done" =>
        \A none_is_na \in BOOLEAN :
            LET loaded == read_csv(file, none_is_na)
                stats == generate_summary_statistics(loaded)
            IN  /\ Len(loaded.rows) = Len(data)
                /\ \A k \in 1..Len(data) :
                      loaded.rows[k].Activity_Level = data[k].Activity_Level
                /\ stats.high_activity + stats.moderate_activity
                     + stats.low_activity + stats.no_activity
                   = stats.total_tests

\* the combination the loop of lines 209-233 has last gone through
LastCombination == test_combinations[ml.combo - 1]

\* its features as they are, before any scaling
LastFeatures ==
    << label_transform(plant_classes, LastCombination[1]),
       label_transform(bacteria_classes, LastCombination[2]),
       LastCombination[3] >>

(***************************************************************************)
(* C25.  Each new combination is given to the best model in the feature    *)
(* representation that model was fitted on: scaled by the fitted scaler    *)
(* when the best model is Linear Regression, as they are otherwise.        *)
(***************************************************************************)
C25_SameRepresentationAsTraining ==
    (ml.pc \in {"predict", "done"} /\ ml.combo > 1) =>
        ml.X_new = IF ml.best_model_name = "Linear Regression"
                     THEN scaler_transform(ml.scaler, LastFeatures)
                     ELSE [i \in 1..3 |-> LastFeatures[i] * Milli]

(***************************************************************************)
(* C26.  The activity level given to a prediction is the generator's tier  *)
(* of the same value: High from 20 on, Moderate from 15 to below 20, Low   *)
(* from 10 to below 15, None below 10, predictions below 0 included.       *)
(***************************************************************************)
C26_SameTierFunction ==
    /\ \A v \in Predictions : activity_of(v) = classify(v)
    /\ (ml.pc \in {"predict", "done"} /\ ml.combo > 1) =>
          /\ ml.activity = classify(ml.prediction)
          /\ ml.activity = "High" <=> ml.prediction >= 20 * Scale
          /\ ml.activity = "Moderate" <=>
                (ml.prediction >= 15 * Scale /\ ml.prediction < 20 * Scale)
          /\ ml.activity = "Low" <=>
                (ml.prediction >= 10 * Scale /\ ml.prediction < 15 * Scale)
          /\ ml.activity = "None" <=> ml.prediction < 10 * Scale

\* a prediction below 0 was given None
C26_Witness ==
    /\ ml.pc = "done"
    /\ ml.prediction < 0
    /\ ml.activity = "None"
    /\ ml.best_model_name = "Random Forest"

=============================================================================
